---- MODULE Spec2Model ----
(***************************************************************************)
(* Two MPSC blocking channels: channel_v1 (variant "A", producers hold a   *)
(* Weak link, liveness read off the Arc's weak/strong counts) and          *)
(* channel_v2 (variant "B", producers hold an Arc, liveness is the         *)
(* tx_count field kept under the mutex).  Every atomic operation of the    *)
(* source (an atomic counter access, a mutex acquisition, a critical       *)
(* section, a condvar call) is one step of the handle or consumer that     *)
(* performs it.                                                            *)
(***************************************************************************)
EXTENDS Integers, Sequences, FiniteSets, TLC

\* Number of producer handle slots (the original handle plus clones).
MaxHandles == 2
\* Total number of send calls in a run.
MaxSends == 2

Handles == 1..MaxHandles
Variants == {"A", "B"}

VARIABLES
    variant,    \* "A" = channel_v1, "B" = channel_v2
    hpc,        \* per producer handle: where its current operation stands
    strong,     \* Arc strong count of Shared
    weak,       \* number of Weak links to Shared (variant A)
    tx_count,   \* Inner.tx_count (variant B)
    queue,      \* Shared queue (under the mutex)
    mutex,      \* "free", "rx" (held by the consumer) or "tx" (held by a producer)
    buffer,     \* Receiver.buffer
    rpc,        \* consumer: where recv stands / "idle" / "dropped"
    rret,       \* result of the last completed recv
    nsent,      \* per handle: number of send calls started
    lateSend,   \* per handle: the current send was called after the consumer was destroyed
    result,     \* per handle: outcome of the last send ("none", "Ok", "Panic")
    panicked,   \* set of handles one of whose operations panicked
    signalled,  \* history: some Sender::drop of variant A has called notify_one
    pushed,     \* history: values in the order they were pushed under the lock
    received    \* history: values in the order recv returned them

vars == <<variant, hpc, strong, weak, tx_count, queue, mutex, buffer, rpc, rret,
          nsent, lateSend, result, panicked, signalled, pushed, received>>

NoValue == <<>>
Unset == [kind |-> "Unset", val |-> NoValue]
None == [kind |-> "None", val |-> NoValue]
Some(v) == [kind |-> "Some", val |-> v]

RECURSIVE SumTo(_, _)
SumTo(f, n) == IF n = 0 THEN 0 ELSE f[n] + SumTo(f, n - 1)
TotalSends == SumTo(nsent, MaxHandles)

\* Handles that exist as values (created and not yet fully destroyed).
Exists(h) == hpc[h] \notin {"unborn", "dead"}
Unborn == {h \in Handles : hpc[h] = "unborn"}
Cloning == {h \in Handles : hpc[h] \in {"clone_weak", "clone_lock", "clone_inc", "clone_new"}}
NextSlot == CHOOSE h \in Unborn : \A g \in Unborn : h <= g

\* channel(): one Sender, one Receiver, empty queue and buffer.
Init ==
    /\ variant \in Variants
    /\ hpc = [h \in Handles |-> IF h = 1 THEN "idle" ELSE "unborn"]
    /\ strong = IF variant = "A" THEN 1 ELSE 2
    /\ weak = IF variant = "A" THEN 1 ELSE 0
    /\ tx_count = IF variant = "A" THEN 0 ELSE 1
    /\ queue = <<>>
    /\ mutex = "free"
    /\ buffer = <<>>
    /\ rpc = "idle"
    /\ rret = Unset
    /\ nsent = [h \in Handles |-> 0]
    /\ lateSend = [h \in Handles |-> FALSE]
    /\ result = [h \in Handles |-> "none"]
    /\ panicked = {}
    /\ signalled = FALSE
    /\ pushed = <<>>
    /\ received = <<>>

\* A notify_one that wakes nobody.
NotifyOne_Lost(p) == p

\* Condvar::notify_one: wakes the consumer if it is blocked in wait.
NotifyOne(p) == IF p = "waiting" THEN "woken" ELSE p

\* Dropping an Arc: the count after the decrement.
ArcRelease(s) == s - 1
\* The queue after an Arc was dropped leaving s owners: freed with Shared at 0.
QueueAfterRelease(s, q) == IF s = 0 THEN <<>> ELSE q

\* A push at the wrong end of the deque.
PushBack_Front(q, v) == <<v>> \o q
\* A push that leaves the deque as it was.
PushBack_Noop(q, v) == q

\* VecDeque::push_back
PushBack(q, v) == Append(q, v)

\* The value handed to the send in progress on handle h: its k-th value.
Sending(h) == <<h, nsent[h]>>

Goto(h, l) == hpc' = [hpc EXCEPT ![h] = l]

\* Weak::upgrade succeeds while some Arc is alive.
UpgradeOk(s) == s > 0
\* Weak::weak_count(&self.shared): 0 once no Arc is left.
WeakWeakCount == IF strong = 0 THEN 0 ELSE weak
\* Arc::weak_count(&self.shared), read by the consumer.
ArcWeakCount == weak

(***************************************************************************)
(* Sender::send                                                            *)
(***************************************************************************)
SendStart(h) ==
    /\ hpc[h] = "idle"
    /\ TotalSends < MaxSends
    /\ nsent' = [nsent EXCEPT ![h] = @ + 1]
    /\ lateSend' = [lateSend EXCEPT ![h] = (rpc = "dropped")]
    /\ Goto(h, IF variant = "A" THEN "send_upgrade" ELSE "send_lock")
    /\ UNCHANGED <<variant, strong, weak, tx_count, queue, mutex, buffer, rpc, rret,
                   result, panicked, signalled, pushed, received>>

\* v1: self.shared.upgrade(), or the panic when no Arc is left.
V1SendUpgrade(h) ==
    /\ variant = "A"
    /\ hpc[h] = "send_upgrade"
    /\ IF UpgradeOk(strong)
       THEN /\ strong' = strong + 1
            /\ Goto(h, "send_lock")
            /\ UNCHANGED <<result, panicked>>
       ELSE /\ Goto(h, "panicked")
            /\ result' = [result EXCEPT ![h] = "Panic"]
            /\ panicked' = panicked \cup {h}
            /\ UNCHANGED strong
    /\ UNCHANGED <<variant, weak, tx_count, queue, mutex, buffer, rpc, rret,
                   nsent, lateSend, signalled, pushed, received>>

\* queue.lock().unwrap()
SendLock(h) ==
    /\ hpc[h] = "send_lock"
    /\ mutex = "free"
    /\ mutex' = "tx"
    /\ Goto(h, "send_push")
    /\ UNCHANGED <<variant, strong, weak, tx_count, queue, buffer, rpc, rret,
                   nsent, lateSend, result, panicked, signalled, pushed, received>>

\* push_back(value); the guard is released at the end of the statement.
SendPush(h) ==
    /\ hpc[h] = "send_push"
    /\ queue' = PushBack(queue, Sending(h))
    /\ pushed' = Append(pushed, Sending(h))
    /\ mutex' = "free"
    /\ Goto(h, "send_notify")
    /\ UNCHANGED <<variant, strong, weak, tx_count, buffer, rpc, rret,
                   nsent, lateSend, result, panicked, signalled, received>>

\* avaliable.notify_one(); v2 then returns Ok(()).
SendNotify(h) ==
    /\ hpc[h] = "send_notify"
    /\ rpc' = NotifyOne(rpc)
    /\ IF variant = "A"
       THEN /\ Goto(h, "send_ret")
            /\ UNCHANGED result
       ELSE /\ Goto(h, "idle")
            /\ result' = [result EXCEPT ![h] = "Ok"]
    /\ UNCHANGED <<variant, strong, weak, tx_count, queue, mutex, buffer, rret,
                   nsent, lateSend, panicked, signalled, pushed, received>>

\* v1: Ok(()) is returned and the upgraded Arc `share` goes out of scope.
V1SendReturn(h) ==
    /\ hpc[h] = "send_ret"
    /\ strong' = ArcRelease(strong)
    /\ queue' = QueueAfterRelease(strong', queue)
    /\ result' = [result EXCEPT ![h] = "Ok"]
    /\ Goto(h, "idle")
    /\ UNCHANGED <<variant, weak, tx_count, mutex, buffer, rpc, rret,
                   nsent, lateSend, panicked, signalled, pushed, received>>

(***************************************************************************)
(* Sender::clone                                                           *)
(***************************************************************************)
CloneStart(h) ==
    /\ hpc[h] = "idle"
    /\ Cardinality(Unborn) > Cardinality(Cloning)
    /\ Goto(h, IF variant = "A" THEN "clone_weak" ELSE "clone_lock")
    /\ UNCHANGED <<variant, strong, weak, tx_count, queue, mutex, buffer, rpc, rret,
                   nsent, lateSend, result, panicked, signalled, pushed, received>>

\* v1: Weak::clone and the new Sender.
V1CloneWeak(h) ==
    /\ hpc[h] = "clone_weak"
    /\ weak' = weak + 1
    /\ hpc' = [hpc EXCEPT ![h] = "idle", ![NextSlot] = "idle"]
    /\ UNCHANGED <<variant, strong, tx_count, queue, mutex, buffer, rpc, rret,
                   nsent, lateSend, result, panicked, signalled, pushed, received>>

\* v2: inner.lock().unwrap()
V2CloneLock(h) ==
    /\ hpc[h] = "clone_lock"
    /\ mutex = "free"
    /\ mutex' = "tx"
    /\ Goto(h, "clone_inc")
    /\ UNCHANGED <<variant, strong, weak, tx_count, queue, buffer, rpc, rret,
                   nsent, lateSend, result, panicked, signalled, pushed, received>>

\* A clone that takes and releases the lock without counting the new handle.
V2CloneInc_NoInc(h) ==
    /\ hpc[h] = "clone_inc"
    /\ mutex' = "free"
    /\ Goto(h, "clone_new")
    /\ UNCHANGED <<variant, strong, weak, tx_count, queue, buffer, rpc, rret,
                   nsent, lateSend, result, panicked, signalled, pushed, received>>

\* v2: inner.tx_count += 1; drop(inner)
V2CloneInc(h) ==
    /\ hpc[h] = "clone_inc"
    /\ tx_count' = tx_count + 1
    /\ mutex' = "free"
    /\ Goto(h, "clone_new")
    /\ UNCHANGED <<variant, strong, weak, queue, buffer, rpc, rret,
                   nsent, lateSend, result, panicked, signalled, pushed, received>>

\* v2: Arc::clone and the new Sender.
V2CloneNew(h) ==
    /\ hpc[h] = "clone_new"
    /\ strong' = strong + 1
    /\ hpc' = [hpc EXCEPT ![h] = "idle", ![NextSlot] = "idle"]
    /\ UNCHANGED <<variant, weak, tx_count, queue, mutex, buffer, rpc, rret,
                   nsent, lateSend, result, panicked, signalled, pushed, received>>

(***************************************************************************)
(* Drop for Sender (also run when a panicking send unwinds)                *)
(***************************************************************************)
DropStart(h) ==
    /\ hpc[h] \in {"idle", "panicked"}
    /\ Goto(h, IF variant = "A" THEN "drop_read" ELSE "drop_lock")
    /\ UNCHANGED <<variant, strong, weak, tx_count, queue, mutex, buffer, rpc, rret,
                   nsent, lateSend, result, panicked, signalled, pushed, received>>

\* v1: the handle is the last one when the weak count reads 1.
V1IsLast(c) == c = 1

\* v1: if Weak::weak_count(&self.shared) == 1
V1DropRead(h) ==
    /\ hpc[h] = "drop_read"
    /\ Goto(h, IF V1IsLast(WeakWeakCount) THEN "drop_upgrade" ELSE "drop_field")
    /\ UNCHANGED <<variant, strong, weak, tx_count, queue, mutex, buffer, rpc, rret,
                   nsent, lateSend, result, panicked, signalled, pushed, received>>

\* v1: self.shared.upgrade().unwrap()
V1DropUpgrade(h) ==
    /\ hpc[h] = "drop_upgrade"
    /\ IF UpgradeOk(strong)
       THEN /\ strong' = strong + 1
            /\ Goto(h, "drop_notify")
            /\ UNCHANGED panicked
       ELSE /\ Goto(h, "drop_field")
            /\ panicked' = panicked \cup {h}
            /\ UNCHANGED strong
    /\ UNCHANGED <<variant, weak, tx_count, queue, mutex, buffer, rpc, rret,
                   nsent, lateSend, result, signalled, pushed, received>>

\* v1: .avaliable.notify_one()
V1DropNotify(h) ==
    /\ hpc[h] = "drop_notify"
    /\ rpc' = NotifyOne(rpc)
    /\ signalled' = TRUE
    /\ Goto(h, "drop_release")
    /\ UNCHANGED <<variant, strong, weak, tx_count, queue, mutex, buffer, rret,
                   nsent, lateSend, result, panicked, pushed, received>>

\* v1: the temporary Arc of the upgrade is dropped at the end of the statement.
V1DropRelease(h) ==
    /\ hpc[h] = "drop_release"
    /\ strong' = ArcRelease(strong)
    /\ queue' = QueueAfterRelease(strong', queue)
    /\ Goto(h, "drop_field")
    /\ UNCHANGED <<variant, weak, tx_count, mutex, buffer, rpc, rret,
                   nsent, lateSend, result, panicked, signalled, pushed, received>>

\* v1: after drop() the Weak field itself is dropped: the weak count goes down.
V1DropField(h) ==
    /\ hpc[h] = "drop_field"
    /\ weak' = weak - 1
    /\ Goto(h, "dead")
    /\ UNCHANGED <<variant, strong, tx_count, queue, mutex, buffer, rpc, rret,
                   nsent, lateSend, result, panicked, signalled, pushed, received>>

\* v2: inner.lock().unwrap()
V2DropLock(h) ==
    /\ hpc[h] = "drop_lock"
    /\ mutex = "free"
    /\ mutex' = "tx"
    /\ Goto(h, "drop_body")
    /\ UNCHANGED <<variant, strong, weak, tx_count, queue, buffer, rpc, rret,
                   nsent, lateSend, result, panicked, signalled, pushed, received>>

\* The signal tested against the count before the decrement.
V2IsLast_OffByOne(c) == c = 1

\* v2: the count after the decrement tells whether to signal.
V2IsLast(c) == c = 0

\* v2: tx_count -= 1; notify_one if it reached 0; then the guard and the
\* Arc field are released.
V2DropBody(h) ==
    /\ hpc[h] = "drop_body"
    /\ tx_count' = tx_count - 1
    /\ rpc' = IF V2IsLast(tx_count') THEN NotifyOne(rpc) ELSE rpc
    /\ mutex' = "free"
    /\ strong' = ArcRelease(strong)
    /\ queue' = QueueAfterRelease(strong', queue)
    /\ Goto(h, "dead")
    /\ UNCHANGED <<variant, weak, buffer, rret,
                   nsent, lateSend, result, panicked, signalled, pushed, received>>

(***************************************************************************)
(* Receiver::recv and the destruction of the Receiver                      *)
(***************************************************************************)
\* The weak count compared as if it included the Arcs' implicit weak link.
NoProducers_OffByOne == IF variant = "A" THEN ArcWeakCount = 1 ELSE tx_count = 1

\* The consumer's view of "no producer is left", read while holding the lock.
NoProducers == IF variant = "A" THEN ArcWeakCount = 0 ELSE tx_count = 0

\* The rest of the batch dropped instead of kept in the buffer.
SwapBuffer_Lost(q, b) == b
\* The batch copied into the buffer and left in the shared queue too.
SwapQueue_Kept(q, b) == Tail(q)

\* The swap done before the pop: the returned value stays in the batch.
SwapBuffer_Whole(q, b) == q

\* pop_front then mem::swap(&mut self.buffer, &mut queue): the new buffer.
SwapBuffer(q, b) == Tail(q)
\* ... and the new shared queue.
SwapQueue(q, b) == b

RecvStart ==
    /\ rpc = "idle"
    /\ rpc' = "begin"
    /\ UNCHANGED <<variant, hpc, strong, weak, tx_count, queue, mutex, buffer, rret,
                   nsent, lateSend, result, panicked, signalled, pushed, received>>

\* The lock taken before the buffer is looked at.
RecvBuffer_Locked ==
    /\ rpc = "begin"
    /\ mutex = "free"
    /\ IF buffer # <<>>
       THEN /\ rret' = Some(Head(buffer))
            /\ received' = Append(received, Head(buffer))
            /\ buffer' = Tail(buffer)
            /\ rpc' = "idle"
       ELSE /\ rpc' = "lock"
            /\ UNCHANGED <<rret, received, buffer>>
    /\ UNCHANGED <<variant, hpc, strong, weak, tx_count, queue, mutex,
                   nsent, lateSend, result, panicked, signalled, pushed>>

\* self.buffer.pop_front(): a buffered value is returned without the lock.
RecvBuffer ==
    /\ rpc = "begin"
    /\ IF buffer # <<>>
       THEN /\ rret' = Some(Head(buffer))
            /\ received' = Append(received, Head(buffer))
            /\ buffer' = Tail(buffer)
            /\ rpc' = "idle"
       ELSE /\ rpc' = "lock"
            /\ UNCHANGED <<rret, received, buffer>>
    /\ UNCHANGED <<variant, hpc, strong, weak, tx_count, queue, mutex,
                   nsent, lateSend, result, panicked, signalled, pushed>>

\* queue.lock().unwrap()
RecvLock ==
    /\ rpc = "lock"
    /\ mutex = "free"
    /\ mutex' = "rx"
    /\ rpc' = "check"
    /\ UNCHANGED <<variant, hpc, strong, weak, tx_count, queue, buffer, rret,
                   nsent, lateSend, result, panicked, signalled, pushed, received>>

\* One turn of the loop, holding the lock: take the batch, report the end of
\* the stream, or decide to wait.
RecvCheck ==
    /\ rpc = "check"
    /\ IF queue # <<>>
       THEN /\ rret' = Some(Head(queue))
            /\ received' = Append(received, Head(queue))
            /\ buffer' = SwapBuffer(queue, buffer)
            /\ queue' = SwapQueue(queue, buffer)
            /\ mutex' = "free"
            /\ rpc' = "idle"
       ELSE IF NoProducers
       THEN /\ rret' = None
            /\ mutex' = "free"
            /\ rpc' = "idle"
            /\ UNCHANGED <<received, buffer, queue>>
       ELSE /\ rpc' = "prewait"
            /\ UNCHANGED <<rret, received, buffer, queue, mutex>>
    /\ UNCHANGED <<variant, hpc, strong, weak, tx_count,
                   nsent, lateSend, result, panicked, signalled, pushed>>

\* A wait that blocks without giving the lock back.
RecvWait_KeepsLock ==
    /\ rpc = "prewait"
    /\ rpc' = "waiting"
    /\ UNCHANGED <<variant, hpc, strong, weak, tx_count, queue, mutex, buffer, rret,
                   nsent, lateSend, result, panicked, signalled, pushed, received>>

\* avaliable.wait(queue): the lock is released and the consumer blocks.
RecvWait ==
    /\ rpc = "prewait"
    /\ mutex' = "free"
    /\ rpc' = "waiting"
    /\ UNCHANGED <<variant, hpc, strong, weak, tx_count, queue, buffer, rret,
                   nsent, lateSend, result, panicked, signalled, pushed, received>>

\* Condvar::wait may wake without a notification.
SpuriousWake ==
    /\ rpc = "waiting"
    /\ rpc' = "woken"
    /\ UNCHANGED <<variant, hpc, strong, weak, tx_count, queue, mutex, buffer, rret,
                   nsent, lateSend, result, panicked, signalled, pushed, received>>

\* A single wait instead of a loop: the wake is taken for the end of the stream.
RecvReacquire_NoRecheck ==
    /\ rpc = "woken"
    /\ mutex = "free"
    /\ rpc' = "idle"
    /\ rret' = None
    /\ UNCHANGED <<variant, hpc, strong, weak, tx_count, queue, mutex, buffer,
                   nsent, lateSend, result, panicked, signalled, pushed, received>>

\* wait returns once the lock is reacquired.
RecvReacquire ==
    /\ rpc = "woken"
    /\ mutex = "free"
    /\ mutex' = "rx"
    /\ rpc' = "check"
    /\ UNCHANGED <<variant, hpc, strong, weak, tx_count, queue, buffer, rret,
                   nsent, lateSend, result, panicked, signalled, pushed, received>>

\* drop(rx): the Receiver's Arc and its buffer go away.
RecvDrop ==
    /\ rpc = "idle"
    /\ rpc' = "dropped"
    /\ buffer' = <<>>
    /\ strong' = ArcRelease(strong)
    /\ queue' = QueueAfterRelease(strong', queue)
    /\ UNCHANGED <<variant, hpc, weak, tx_count, mutex, rret,
                   nsent, lateSend, result, panicked, signalled, pushed, received>>

(***************************************************************************)
(* The system                                                              *)
(***************************************************************************)
\* Steps that begin an operation: taken when the caller chooses to.
HandleCall(h) == SendStart(h) \/ CloneStart(h) \/ DropStart(h)

\* Steps of an operation already begun on handle h.
HandleProgress(h) ==
    \/ V1SendUpgrade(h) \/ SendLock(h) \/ SendPush(h) \/ SendNotify(h)
    \/ V1SendReturn(h)
    \/ V1CloneWeak(h) \/ V2CloneLock(h) \/ V2CloneInc(h) \/ V2CloneNew(h)
    \/ V1DropRead(h) \/ V1DropUpgrade(h) \/ V1DropNotify(h) \/ V1DropRelease(h)
    \/ V1DropField(h)
    \/ V2DropLock(h) \/ V2DropBody(h)

\* Steps of a recv already begun.
RecvProgress == RecvBuffer \/ RecvLock \/ RecvCheck \/ RecvWait \/ RecvReacquire

Next ==
    \/ \E h \in Handles : HandleCall(h) \/ HandleProgress(h)
    \/ RecvStart \/ RecvProgress \/ SpuriousWake \/ RecvDrop

Spec == Init /\ [][Next]_vars

\* Threads that are inside an operation keep being scheduled; nobody is
\* obliged to begin an operation, and a spurious wake-up need not happen.
FairSpec ==
    /\ Spec
    /\ WF_vars(RecvProgress)
    /\ \A h \in Handles : WF_vars(HandleProgress(h))

\* As FairSpec, and a thread asking for the mutex gets it if the mutex is
\* free again and again (no thread is starved of the lock).
FairLockSpec ==
    /\ Spec
    /\ WF_vars(RecvProgress)
    /\ \A h \in Handles : SF_vars(HandleProgress(h))

(***************************************************************************)
(* Properties                                                              *)
(***************************************************************************)
Range(s) == {s[i] : i \in 1..Len(s)}
IsPrefix(s, t) == Len(s) <= Len(t) /\ \A i \in 1..Len(s) : s[i] = t[i]

\* Every producer handle has been fully destroyed.
ProducersGone == \A h \in Handles : ~Exists(h)
\* The consumer is inside a call of recv.
InRecv == rpc \in {"begin", "lock", "check", "prewait", "waiting", "woken"}
\* The consumer is about to block, or blocked, on the condition variable.
Blocked == rpc \in {"prewait", "waiting"}
Closed == ProducersGone /\ queue = <<>> /\ buffer = <<>>

\* C1: variant A: a recv blocked on an empty queue returns None once every
\* producer handle has been destroyed, whatever the interleaving of
\* Sender::drop with the consumer's check and wait.
C1_V1BlockedRecvReturnsNone ==
    (variant = "A" /\ InRecv /\ Closed) ~> (rpc = "idle" /\ rret = None)

\* C2: variant B: a recv blocked on an empty queue returns None once every
\* producer handle has been destroyed, whatever the interleaving of clone,
\* drop and recv.
C2_V2BlockedRecvReturnsNone ==
    (variant = "B" /\ InRecv /\ Closed) ~> (rpc = "idle" /\ rret = None)
\* The consumer was blocked when the last producer went away and has been woken.
C2_Witness ==
    variant = "B" /\ rpc = "woken" /\ Closed /\ tx_count = 0

\* C3: once the last producer handle is destroyed and the queue and the buffer
\* are empty, the channel stays closed, a recv that has not yet decided to
\* wait never waits, and every recv that returns returns None.
C3_ClosurePermanent ==
    [][(Closed /\ rpc \in {"idle", "begin", "lock", "check"})
         => /\ Closed'
            /\ rpc' \in {"idle", "begin", "lock", "check", "dropped"}
            /\ (rpc # "idle" /\ rpc' = "idle" => rret' = None)]_vars
\* A recv called on the closed channel has returned None.
C3_Witness ==
    Closed /\ rpc = "idle" /\ rret = None /\ received # <<>>

\* C4: no value is lost or duplicated: what recv returned was sent, nothing
\* is returned twice, and when recv returns None every send that was called
\* has had its value returned.
C4_NoLossNoDuplicate ==
    /\ Range(received) \subseteq Range(pushed)
    /\ \A i, j \in 1..Len(received) : i # j => received[i] # received[j]
    /\ rret = None
         => Len(received) = TotalSends /\ Len(pushed) = TotalSends
\* Two producers sent one value each, both were received, then None.
C4_Witness ==
    /\ rret = None
    /\ Len(received) = MaxHandles
    /\ \A h \in Handles : nsent[h] = 1

\* C5: the values sent through one producer handle are returned in the order
\* that handle sent them.
C5_PerProducerFifo ==
    \A i, j \in 1..Len(received) :
        (i < j /\ received[i][1] = received[j][1]) => received[i][2] < received[j][2]
\* Two values of the same producer have been returned.
C5_Witness ==
    \E i, j \in 1..Len(received) : i < j /\ received[i][1] = received[j][1]

\* C6: the local buffer is transparent: the values returned are, in order, a
\* prefix of the values pushed under the lock, and the rest of them sits, in
\* order, in the buffer followed by the shared queue.
C6_BufferTransparent ==
    /\ IsPrefix(received, pushed)
    /\ rpc # "dropped" => pushed = received \o buffer \o queue
\* A batch was swapped into the buffer and its first value returned.
C6_Witness ==
    received # <<>> /\ buffer # <<>> /\ rpc = "idle"

\* C7: variant A: a send called after the consumer handle was destroyed
\* panics; it neither returns Ok nor enqueues its value.
C7_V1LateSendPanics ==
    variant = "A" =>
        \A h \in Handles :
            lateSend[h] =>
                /\ hpc[h] \in {"send_upgrade", "panicked", "drop_read", "drop_field", "dead"}
                /\ hpc[h] # "send_upgrade" => result[h] = "Panic"
                /\ Sending(h) \notin Range(pushed)

DropTxTestDone ==
    /\ rpc = "dropped" /\ rret = Unset
    /\ hpc = [h \in Handles |-> IF h = 1 THEN "dead" ELSE "unborn"]
    /\ nsent[1] = 1 /\ lateSend[1]

\* C9: variant B: test_drop_tx (should_panic) ends in a panic.
C9_V2DropTxTestPanics ==
    (variant = "B" /\ DropTxTestDone) => panicked # {}

\* C10: no wake-up is lost for data: a consumer about to wait or waiting,
\* with a value pushed by a send, returns a value from that recv; when several
\* values were pushed before it woke, the rest of them are then in its buffer.
C10_NoLostWakeup ==
    /\ (Blocked /\ queue # <<>>) ~> (rpc = "idle" /\ rret.kind = "Some")
    /\ (Blocked /\ Len(queue) > 1)
          ~> (rpc = "idle" /\ rret.kind = "Some" /\ buffer # <<>>)
\* The consumer is blocked and a send has pushed but not yet notified.
C10_Witness ==
    rpc = "waiting" /\ queue # <<>> /\ \E h \in Handles : hpc[h] = "send_notify"

\* A send on handle h has been called and has not returned.
InSend(h) == hpc[h] \in {"send_upgrade", "send_lock", "send_push", "send_notify", "send_ret"}

C12_NoneOnlyWhenClosed ==
    rret = None =>
        /\ ProducersGone
        /\ queue = <<>> /\ buffer = <<>>
        /\ received = pushed
\* recv returned None after both producer handles were used and destroyed.
C12_Witness ==
    /\ rret = None /\ rpc = "idle"
    /\ \A h \in Handles : hpc[h] = "dead"
    /\ pushed # <<>>

\* v2: handles whose destruction has not decremented tx_count yet, and
\* handles a clone has already counted but not yet created.
V2Counted ==
    Cardinality({h \in Handles : Exists(h)})
        + Cardinality({h \in Handles : hpc[h] = "clone_new"})

\* C13: variant B: tx_count starts at 1, always equals the number of producer
\* handles that exist or are being created by a clone that has incremented
\* it, is at least 1 while some handle exists, never goes below 0, and stays
\* 0 once it is 0.
C13_V2TxCount ==
    /\ (variant = "B" => tx_count = 1)
    /\ [](variant = "B" =>
            /\ tx_count = V2Counted
            /\ tx_count >= 0
            /\ (\E h \in Handles : Exists(h)) => tx_count >= 1)
    /\ [][(variant = "B" /\ tx_count = 0) => tx_count' = 0]_vars
\* A clone has incremented tx_count and not yet created its handle.
C13_Witness ==
    variant = "B" /\ tx_count = 2 /\ hpc[1] = "clone_new" /\ hpc[2] = "unborn"

\* C14: variant A: whenever every producer handle has been destroyed while
\* the consumer is alive, some Sender::drop has read a weak count of 1 and
\* called notify_one.
C14_V1LastDropSignals ==
    (variant = "A" /\ ProducersGone /\ rpc # "dropped") => signalled

\* Some producer handle has not been fully destroyed.
LiveProducer == \E h \in Handles : Exists(h)
\* This step is a return of recv.
RecvReturns == rpc # "idle" /\ rpc' = "idle"

\* C15: recv is a guarded wait: woken with the shared queue empty and a live
\* producer it re-checks and goes back to waiting; it leaves the loop only
\* with a value to take or with no producer left; and a value it returns was
\* pushed by a send.
C15_GuardedWait ==
    [][/\ (rpc = "woken" /\ queue = <<>> /\ LiveProducer)
            => rpc' \in {"woken", "check"}
       /\ (rpc = "check" /\ queue = <<>> /\ LiveProducer)
            => rpc' \in {"check", "prewait"}
       /\ (rpc \in {"woken", "check"} /\ RecvReturns)
            => (queue # <<>> \/ ProducersGone)
       /\ (RecvReturns /\ rret'.kind = "Some")
            => (rret'.val \in Range(pushed) /\ rret'.val \notin Range(received))]_vars
\* The consumer was woken although the value of the only send so far was
\* already taken.
C15_Witness ==
    /\ rpc = "woken" /\ queue = <<>> /\ LiveProducer
    /\ received # <<>> /\ received = pushed

\* C16: the buffer is empty whenever recv holds the lock; a recv that takes
\* from the shared queue leaves it empty and keeps in the buffer, in order,
\* the values that followed the returned one; nothing goes back from the
\* buffer to the shared queue; the buffer holds only values taken from the
\* shared queue and not yet returned.
C16_BufferInvariant ==
    /\ [](/\ rpc \in {"check", "prewait"} => buffer = <<>>
          /\ Range(buffer) \subseteq Range(pushed)
          /\ Range(buffer) \cap Range(received) = {}
          /\ Range(buffer) \cap Range(queue) = {})
    /\ [][/\ (rpc = "check" /\ RecvReturns /\ rret'.kind = "Some")
               => /\ rret'.val = Head(queue)
                  /\ buffer' = Tail(queue)
                  /\ queue' = <<>>
          /\ Range(queue') \cap Range(buffer) = {}]_vars
\* A recv has just taken a batch of two: one value returned, one buffered.
C16_Witness ==
    /\ rpc = "idle" /\ rret.kind = "Some"
    /\ queue = <<>> /\ Len(buffer) = 1 /\ Len(received) = 1
    /\ rret.val = pushed[1] /\ buffer[1] = pushed[2]

\* C17: with a value in the buffer recv returns its front element in one
\* step that needs neither the lock nor a wait: the shared queue, the mutex
\* and the producer counts are untouched, and the step can be taken while a
\* producer holds the lock.
C17_BufferFastPath ==
    /\ []((rpc = "begin" /\ buffer # <<>>) => ENABLED RecvBuffer)
    /\ [][(rpc = "begin" /\ buffer # <<>> /\ rpc' # rpc)
            => /\ rpc' = "idle"
               /\ rret' = Some(Head(buffer))
               /\ buffer' = Tail(buffer)
               /\ UNCHANGED <<queue, mutex, strong, weak, tx_count>>]_vars
\* recv was called with a value in the buffer while a producer holds the lock.
C17_Witness ==
    rpc = "begin" /\ buffer # <<>> /\ mutex = "tx"

\* C18: variant A: destroying a producer handle never panics: the only
\* panics are those of send.
C18_V1DropNeverPanics ==
    variant = "A" => \A h \in panicked : result[h] = "Panic"

====
